---- MODULE Spec2Model ----
(***************************************************************************)
(* Checkpoint store of strix (src/strix/telemetry/checkpoint.py): the      *)
(* run directory with its two file names, the agent process that saves,   *)
(* loads, checks and deletes the checkpoint, and a monitoring process     *)
(* that reads checkpoint.json while the agent writes.                     *)
(***************************************************************************)
EXTENDS Integers, Sequences, FiniteSets, TLC

(***************************************************************************)
(* Python values, as json.load returns them and json.dump takes them.     *)
(* A value is its type t and, by type: n the number (a bool is 0 or 1, a   *)
(* float is kept by its integral value), s the string, items the list,    *)
(* map the dict.  PyObj is a value json cannot serialize (a set).         *)
(***************************************************************************)
EmptyMap == <<>>
PyValue(t, n, s, items, map) == [t |-> t, n |-> n, s |-> s, items |-> items, map |-> map]
JNull == PyValue("null", 0, "", <<>>, EmptyMap)
JBool(b) == PyValue("bool", IF b THEN 1 ELSE 0, "", <<>>, EmptyMap)
JInt(n) == PyValue("int", n, "", <<>>, EmptyMap)
JFloat(n) == PyValue("float", n, "", <<>>, EmptyMap)
JStr(s) == PyValue("str", 0, s, <<>>, EmptyMap)
JList(s) == PyValue("list", 0, "", s, EmptyMap)
JObj(f) == PyValue("obj", 0, "", <<>>, f)
PyObj == PyValue("pyobj", 0, "", <<>>, EmptyMap)
PyNone == JNull

EmptyDict == JObj(EmptyMap)
Put(f, key, val) == [k \in DOMAIN f \cup {key} |-> IF k = key THEN val ELSE f[k]]

\* Number of characters of the strings the model uses (len of a str).
StrLen(s) ==
    CASE s = "a.com" -> 5
      [] s = "b.com" -> 5
      [] s = "c.com" -> 5
      [] s = "" -> 0
      [] OTHER -> 2

(***************************************************************************)
(* Outcomes of a call and Python's exception classes.                     *)
(***************************************************************************)
Return(v) == [kind |-> "return", val |-> v, exc |-> ""]
Raise(e) == [kind |-> "raise", val |-> PyNone, exc |-> e]

ExcParent(e) ==
    CASE e = "JSONDecodeError" -> "ValueError"
      [] e = "UnicodeDecodeError" -> "ValueError"
      [] e = "PydanticSerializationError" -> "ValueError"
      [] e = "PermissionError" -> "OSError"
      [] e = "FileNotFoundError" -> "OSError"
      [] e = "RecursionError" -> "RuntimeError"
      [] OTHER -> "Exception"

IsSubclass(e, c) ==
    \/ e = c
    \/ ExcParent(e) = c
    \/ c = "Exception"

Caught(e, classes) == \E c \in classes : IsSubclass(e, c)

\* try: body  except classes: return handled
Try(outcome, classes, handled) ==
    IF outcome.kind = "raise" /\ Caught(outcome.exc, classes)
    THEN Return(handled)
    ELSE outcome

(***************************************************************************)
(* Text of a JSON file, as a sequence of lexemes.  "junk" is text that is *)
(* no JSON lexeme, "badbyte" a byte sequence that is not UTF-8.           *)
(***************************************************************************)
Lexeme(tok, s, n) == [tok |-> tok, s |-> s, n |-> n]
LB == Lexeme("{", "", 0)
RB == Lexeme("}", "", 0)
LS == Lexeme("[", "", 0)
RS == Lexeme("]", "", 0)
\* A member's name with its colon.
Key(k) == Lexeme("key", k, 0)
\* The literal of a scalar: null, true/false, 1, 1.0, "a.com".
Scalars == {"null", "bool", "int", "float", "str"}
Lit(x) == Lexeme(x.t, x.s, x.n)
Junk == Lexeme("junk", "", 0)
BadByte == Lexeme("badbyte", "", 0)
\* Where the encoder meets a value it cannot serialize: nothing is written,
\* TypeError is raised.
Unserializable == Lexeme("typeerror", "", 0)

\* Order in which the keys of a dict are written.
KeyOrder ==
    <<"version", "created_at", "scan_config", "agent_state", "tracer_data",
      "targets", "completed", "iteration", "run">>

RECURSIVE Encode(_)
RECURSIVE EncodeItems(_)
RECURSIVE EncodeMembers(_, _)

EncodeItems(s) ==
    IF s = <<>> THEN <<>> ELSE Encode(Head(s)) \o EncodeItems(Tail(s))

EncodeMembers(f, keys) ==
    IF keys = <<>> THEN <<>>
    ELSE (IF Head(keys) \in DOMAIN f
          THEN <<Key(Head(keys))>> \o Encode(f[Head(keys)])
          ELSE <<>>) \o EncodeMembers(f, Tail(keys))

\* json.dump's chunks for value x.
Encode(x) ==
    CASE x.t = "obj" -> <<LB>> \o EncodeMembers(x.map, KeyOrder) \o <<RB>>
      [] x.t = "list" -> <<LS>> \o EncodeItems(x.items) \o <<RS>>
      [] x.t = "pyobj" -> <<Unserializable>>
      [] OTHER -> <<Lit(x)>>

ParseFail == [ok |-> FALSE, val |-> JNull, rest |-> <<>>]
ParseOk(x, rest) == [ok |-> TRUE, val |-> x, rest |-> rest]

RECURSIVE ParseValue(_)
RECURSIVE ParseItems(_, _)
RECURSIVE ParseMembers(_, _)

ParseItems(s, acc) ==
    IF s = <<>> THEN ParseFail
    ELSE IF Head(s) = RS THEN ParseOk(JList(acc), Tail(s))
    ELSE LET r == ParseValue(s)
         IN IF r.ok THEN ParseItems(r.rest, Append(acc, r.val)) ELSE ParseFail

ParseMembers(s, acc) ==
    IF s = <<>> THEN ParseFail
    ELSE IF Head(s) = RB THEN ParseOk(JObj(acc), Tail(s))
    ELSE IF Head(s).tok = "key"
    THEN LET r == ParseValue(Tail(s))
         IN IF r.ok THEN ParseMembers(r.rest, Put(acc, Head(s).s, r.val))
            ELSE ParseFail
    ELSE ParseFail

ParseValue(s) ==
    IF s = <<>> THEN ParseFail
    ELSE CASE Head(s).tok \in Scalars ->
                ParseOk(PyValue(Head(s).tok, Head(s).n, Head(s).s, <<>>, EmptyMap), Tail(s))
           [] Head(s).tok = "[" -> ParseItems(Tail(s), <<>>)
           [] Head(s).tok = "{" -> ParseMembers(Tail(s), EmptyMap)
           [] OTHER -> ParseFail

\* json.load(f) of a file opened with encoding="utf-8".
json_load(data) ==
    IF \E i \in 1..Len(data) : data[i] = BadByte
    THEN Raise("UnicodeDecodeError")
    ELSE LET r == ParseValue(data)
         IN IF r.ok /\ r.rest = <<>> THEN Return(r.val)
            ELSE Raise("JSONDecodeError")

(***************************************************************************)
(* Python operations the checkpoint code applies to loaded values.        *)
(***************************************************************************)
\* x.get(key, default)
dict_get(x, key, default) ==
    IF x.t # "obj" THEN Raise("AttributeError")
    ELSE IF key \in DOMAIN x.map THEN Return(x.map[key]) ELSE Return(default)

\* key in x, for x a dict
dict_has(x, key) == key \in DOMAIN x.map

\* len(x)
py_len(x) ==
    CASE x.t = "list" -> Return(JInt(Len(x.items)))
      [] x.t = "obj" -> Return(JInt(Cardinality(DOMAIN x.map)))
      [] x.t = "str" -> Return(JInt(StrLen(x.s)))
      [] OTHER -> Raise("TypeError")

\* bool(x)
Truthy(x) ==
    CASE x.t = "null" -> FALSE
      [] x.t \in {"bool", "int", "float"} -> x.n # 0
      [] x.t = "str" -> StrLen(x.s) # 0
      [] x.t = "list" -> Len(x.items) # 0
      [] x.t = "obj" -> DOMAIN x.map # {}
      [] OTHER -> TRUE

\* x != n for an int n: bool is a subclass of int, a float compares by value.
PyNeInt(x, n) ==
    CASE x.t \in {"int", "float", "bool"} -> x.n # n
      [] OTHER -> TRUE

(***************************************************************************)
(* checkpoint.py                                                          *)
(***************************************************************************)
CHECKPOINT_VERSION == 1

Path(stem, suffix) == [stem |-> stem, suffix |-> suffix]
with_suffix(p, suffix) == [p EXCEPT !.suffix = suffix]

\* get_checkpoint_path(run_dir): run_dir / "checkpoint.json"
get_checkpoint_path == Path("checkpoint", ".json")
\* Variant: the checkpoint is written in place, with no temporary file.
temp_path_in_place == get_checkpoint_path
temp_path == with_suffix(get_checkpoint_path, ".tmp")

Names == {get_checkpoint_path, temp_path}
NoFile == 0

SaveCaught == {"OSError", "RuntimeError", "TypeError", "ValueError"}
LoadCaught == {"OSError", "JSONDecodeError", "KeyError", "TypeError"}
\* Variant: the except clause names only FileNotFoundError.
DeleteCaught_not_found_only == {"FileNotFoundError"}
DeleteCaught == {"OSError"}

\* Variant: agent_state is not among the required fields.
required_config_only == <<"scan_config">>
required == <<"scan_config", "agent_state">>

\* load_checkpoint from the version check on, for the parsed value.
LoadValidate(checkpoint) ==
    LET version == dict_get(checkpoint, "version", PyNone)
    IN IF version.kind = "raise" THEN version
       ELSE IF PyNeInt(version.val, CHECKPOINT_VERSION) THEN Return(PyNone)
       ELSE LET missing == SelectSeq(required, LAMBDA f : ~dict_has(checkpoint, f))
            IN IF missing # <<>> THEN Return(PyNone) ELSE Return(checkpoint)

\* The body of load_checkpoint's try block, f being what checkpoint.json
\* shows: [exists, readable, data].
LoadBody(f) ==
    IF ~f.exists THEN Return(PyNone)
    ELSE IF ~f.readable THEN Raise("PermissionError")
    ELSE LET checkpoint == json_load(f.data)
         IN IF checkpoint.kind = "raise" THEN checkpoint
            ELSE LoadValidate(checkpoint.val)

\* load_checkpoint(run_dir)
load_checkpoint(f) == Try(LoadBody(f), LoadCaught, PyNone)

\* Variant: the completed flag is not looked at.
can_resume_ignoring_completed(f, current_scan_config) ==
    LET checkpoint == load_checkpoint(f)
        n1 == py_len(dict_get(dict_get(checkpoint.val, "scan_config", EmptyDict).val,
                              "targets", JList(<<>>)).val)
        n2 == py_len(dict_get(current_scan_config, "targets", JList(<<>>)).val)
    IN IF ~Truthy(checkpoint.val) THEN Return(JBool(FALSE))
       ELSE IF n1.kind = "raise" THEN n1
       ELSE IF n2.kind = "raise" THEN n2
       ELSE Return(JBool(n1.val = n2.val))

\* Variant: the target lists themselves are compared, not their lengths.
can_resume_comparing_targets(f, current_scan_config) ==
    LET checkpoint == load_checkpoint(f)
        agent_state_data == dict_get(checkpoint.val, "agent_state", EmptyDict)
        completed == dict_get(agent_state_data.val, "completed", JBool(FALSE))
        saved_config == dict_get(checkpoint.val, "scan_config", EmptyDict)
        saved_targets == dict_get(saved_config.val, "targets", JList(<<>>))
        current_targets == dict_get(current_scan_config, "targets", JList(<<>>))
    IN IF checkpoint.kind = "raise" THEN checkpoint
       ELSE IF ~Truthy(checkpoint.val) THEN Return(JBool(FALSE))
       ELSE IF agent_state_data.kind = "raise" THEN agent_state_data
       ELSE IF completed.kind = "raise" THEN completed
       ELSE IF Truthy(completed.val) THEN Return(JBool(FALSE))
       ELSE IF saved_config.kind = "raise" THEN saved_config
       ELSE IF saved_targets.kind = "raise" THEN saved_targets
       ELSE IF current_targets.kind = "raise" THEN current_targets
       ELSE Return(JBool(saved_targets.val = current_targets.val))

\* can_resume(run_dir, current_scan_config)
can_resume(f, current_scan_config) ==
    LET checkpoint == load_checkpoint(f)
    IN IF checkpoint.kind = "raise" THEN checkpoint
       ELSE IF ~Truthy(checkpoint.val) THEN Return(JBool(FALSE))
       ELSE
       LET agent_state_data == dict_get(checkpoint.val, "agent_state", EmptyDict)
       IN IF agent_state_data.kind = "raise" THEN agent_state_data
          ELSE
          LET completed == dict_get(agent_state_data.val, "completed", JBool(FALSE))
          IN IF completed.kind = "raise" THEN completed
             ELSE IF Truthy(completed.val) THEN Return(JBool(FALSE))
             ELSE
             LET saved_config == dict_get(checkpoint.val, "scan_config", EmptyDict)
             IN IF saved_config.kind = "raise" THEN saved_config
                ELSE
                LET saved_targets == dict_get(saved_config.val, "targets", JList(<<>>))
                    current_targets == dict_get(current_scan_config, "targets", JList(<<>>))
                IN IF saved_targets.kind = "raise" THEN saved_targets
                   ELSE IF current_targets.kind = "raise" THEN current_targets
                   ELSE
                   LET n1 == py_len(saved_targets.val)
                       n2 == py_len(current_targets.val)
                   IN IF n1.kind = "raise" THEN n1
                      ELSE IF n2.kind = "raise" THEN n2
                      ELSE IF n1.val # n2.val THEN Return(JBool(FALSE))
                      ELSE Return(JBool(TRUE))

(***************************************************************************)
(* The run directory: names bound to inodes, and the inodes' contents.    *)
(* An open file descriptor keeps its inode after the name is unlinked or  *)
(* renamed over.                                                          *)
(***************************************************************************)
MaxInodes == 3
MaxSaves == 2
MaxWatchedSaves == 1
ChunkLen == 8

Inodes == 1..MaxInodes
EmptyInode == [data |-> <<>>, readable |-> TRUE]
Absent == [exists |-> FALSE, data |-> <<>>, readable |-> FALSE]
FileWith(data, readable) == [exists |-> TRUE, data |-> data, readable |-> readable]

\* What a name of directory d shows.
FileOf(d, ino, name) ==
    IF d[name] = NoFile THEN Absent
    ELSE FileWith(ino[d[name]].data, ino[d[name]].readable)

Linked(d) == {d[n] : n \in DOMAIN d} \ {NoFile}

\* Inodes with no name and no open descriptor are released.
Collect(d, ino, fds) ==
    [i \in DOMAIN ino |-> IF i \in Linked(d) \cup fds THEN ino[i] ELSE EmptyInode]

FreeInodes(d, fds) == {i \in Inodes : i \notin Linked(d) \cup fds}
MinOf(S) == CHOOSE i \in S : \A j \in S : i <= j

\* Variant: the destination gets the file and the source keeps its name (a copy).
replace_keeps_source(d, src, dst) == [d EXCEPT ![dst] = d[src]]

\* os.replace(src, dst): one step; the same path twice changes nothing.
replace(d, src, dst) ==
    IF src = dst THEN d
    ELSE [d EXCEPT ![dst] = d[src], ![src] = NoFile]

\* Variant: the unlink takes every file of the store, the temp file too.
unlink_with_temp(d, name) == [n \in DOMAIN d |-> NoFile]

\* unlink(name)
unlink(d, name) == [d EXCEPT ![name] = NoFile]

\* datetime.now(UTC).isoformat() at the n-th reading of the clock.
IsoFormat(n) ==
    CASE n = 0 -> "t0"
      [] n = 1 -> "t1"
      [] n = 2 -> "t2"
      [] n = 3 -> "t3"
      [] OTHER -> "t4"

(***************************************************************************)
(* Inputs of save_checkpoint.  An agent-state object is given by what the *)
(* code uses of it: whether it has model_dump, what model_dump returns or *)
(* raises, whether it has the attribute iteration.                        *)
(***************************************************************************)
AgentObj(has_dump, dump, has_iter) ==
    [has_model_dump |-> has_dump, dump |-> dump, has_iteration |-> has_iter]

Snapshot(completed, iteration) ==
    JObj([completed |-> JBool(completed), iteration |-> JInt(iteration)])

Running == AgentObj(TRUE, Return(Snapshot(FALSE, 5)), TRUE)
Finished == AgentObj(TRUE, Return(Snapshot(TRUE, 7)), TRUE)
NoModelDump == AgentObj(FALSE, Return(PyNone), TRUE)
DumpRaises == AgentObj(TRUE, Raise("PydanticSerializationError"), TRUE)
NoIteration == AgentObj(TRUE, Return(JObj([completed |-> JBool(FALSE)])), FALSE)

Targets(s) == JObj([targets |-> JList(s)])
OneTarget == Targets(<<JStr("a.com")>>)
TwoTargets == Targets(<<JStr("a.com"), JStr("b.com")>>)
OtherTwoTargets == Targets(<<JStr("b.com"), JStr("c.com")>>)
ThreeTargets == Targets(<<JStr("a.com"), JStr("b.com"), JStr("c.com")>>)
\* A scan_config holding a value json cannot serialize.
BadConfig == JObj([targets |-> PyObj])

\* tracer_data: None when the caller gives none.
SomeTracer == JObj([run |-> JStr("r1")])

\* The calls of save_checkpoint the agent makes: <<agent_state, scan_config, tracer_data>>.
SaveInputs ==
    {<<Running, OneTarget, PyNone>>,
     <<Running, TwoTargets, SomeTracer>>,
     <<Finished, OneTarget, EmptyDict>>,
     <<Running, BadConfig, PyNone>>,
     <<NoModelDump, OneTarget, PyNone>>,
     <<DumpRaises, OneTarget, PyNone>>,
     <<NoIteration, OneTarget, PyNone>>}

\* Variant: tracer_data is stored as given, None included.
BuildCheckpoint_no_default(dump, scan_config, tracer_data, created_at) ==
    JObj([version |-> JInt(CHECKPOINT_VERSION),
          created_at |-> JStr(created_at),
          scan_config |-> scan_config,
          agent_state |-> dump,
          tracer_data |-> tracer_data])

\* The checkpoint dict save_checkpoint builds.
BuildCheckpoint(dump, scan_config, tracer_data, created_at) ==
    JObj([version |-> JInt(CHECKPOINT_VERSION),
          created_at |-> JStr(created_at),
          scan_config |-> scan_config,
          agent_state |-> dump,
          tracer_data |-> IF Truthy(tracer_data) THEN tracer_data ELSE EmptyDict])

\* The checkpoint a previous run of the agent left in the directory.
EarlierCheckpoint ==
    BuildCheckpoint(Snapshot(FALSE, 3), Targets(<<JStr("c.com")>>), PyNone, IsoFormat(0))

VARIABLES
    dir,      \* name -> inode, NoFile when the name is not in the directory
    inodes,   \* inode -> [data, readable]
    pc,       \* the agent's position: idle, or a step of save_checkpoint
    sv,       \* save_checkpoint's arguments and locals, and whether it found a temp file
    ret,      \* how the agent's last call ended
    now,      \* readings of the clock so far
    pre,      \* what checkpoint.json showed when the save now running, or the last one that did not go through, started
    saved,    \* the arguments and the dict of the last save that went through, while no save or delete has begun since
    lastsave, \* how the last save ended, and at which step, while no save or delete has begun since
    streak,   \* saves that went through one after the other
    rpc,      \* the monitor's position in its load_checkpoint
    rfd,      \* the inode the monitor has open
    rbuf,     \* what the monitor has read
    rsnap,    \* what checkpoint.json held when the monitor opened it
    rwhen,    \* where the agent was when the monitor opened it
    rret,     \* how the monitor's last load ended
    wpc,      \* the recon tool's position in execute_workflow
    wargs,    \* execute_workflow's arguments
    tfiles,   \* the recon files present in the temp directory
    tdata,    \* their contents
    result,   \* what terminal_execute returned last
    subfinder_result, \* what _run_subfinder returned
    httpx_result,     \* what _run_httpx returned
    wret,     \* what subdomain_recon_execute returned
    ran       \* the tools run so far, in order

vars ==
    <<dir, inodes, pc, sv, ret, now, pre, saved, lastsave, streak,
      rpc, rfd, rbuf, rsnap, rwhen, rret,
      wpc, wargs, tfiles, tdata, result, subfinder_result, httpx_result, wret, ran>>
fsvars == <<dir, inodes>>
agentvars == <<pc, sv, ret, now, pre, saved, lastsave, streak>>
monitorvars == <<rpc, rfd, rbuf, rsnap, rwhen, rret>>
toolvars == <<wpc, wargs, tfiles, tdata, result, subfinder_result, httpx_result, wret, ran>>

IdleSv ==
    [agent_state |-> Running, scan_config |-> EmptyDict, tracer_data |-> PyNone,
     checkpoint |-> PyNone, pos |-> 0, fd |-> NoFile, stale |-> "none"]
NoRet == [op |-> "none", out |-> Return(PyNone), arg |-> PyNone]
Ended(op, out, arg) == [op |-> op, out |-> out, arg |-> arg]
Killed == [kind |-> "killed", val |-> PyNone, exc |-> ""]
NoSave ==
    [is |-> FALSE, agent_state |-> PyNone, scan_config |-> PyNone,
     tracer_data |-> PyNone, checkpoint |-> PyNone, stale |-> "none"]
Last(how, at) == [how |-> how, at |-> at]

OpenFds == (IF sv.fd = NoFile THEN {} ELSE {sv.fd}) \cup (IF rfd = NoFile THEN {} ELSE {rfd})

CheckpointFile == FileOf(dir, inodes, get_checkpoint_path)
TempFile == FileOf(dir, inodes, temp_path)

InitAgent ==
    /\ pc = "idle"
    /\ sv = IdleSv
    /\ ret = NoRet
    /\ now = 0
    /\ pre = Absent
    /\ saved = NoSave
    /\ lastsave = Last("none", "none")
    /\ streak = 0

InitMonitor ==
    /\ rpc = "idle"
    /\ rfd = NoFile
    /\ rbuf = <<>>
    /\ rsnap = Absent
    /\ rwhen = "none"
    /\ rret = NoRet

(***************************************************************************)
(* Subdomain recon (src/strix/tools/subdomain_recon): the temp directory   *)
(* with the files of one workflow, the lines the tools write, and what     *)
(* the terminal and the two steps return.                                  *)
(***************************************************************************)
MaxLines == 2

\* The temp files of a workflow: _run_subfinder's output_file, _run_httpx's
\* input_file and output_file.
subfinder_output_file == "subfinder_example_com.json"
httpx_input_file == "httpx_input.txt"
httpx_output_file == "httpx_output.json"

\* A line of a tool's output file.
Line(kind, host) == [kind |-> kind, host |-> host]
\* {"host": h}
HostLine(h) == Line("host", h)
BlankLine == Line("blank", "")
\* A line json.loads rejects.
MalformedLine == Line("malformed", "")
\* {}: a JSON object with neither host nor subdomain.
NoHostLine == Line("nohost", "")
\* A JSON value that is no object, such as 1.
NonObjectLine == Line("nonobject", "")
\* {"host": h, "url": ..., "status_code": 200}
ActiveLine(h) == Line("active", h)
\* {"host": h, "url": ...}, no status_code
InactiveLine(h) == Line("inactive", h)

SeqsUpTo(S, n) == UNION {[1..k -> S] : k \in 0..n}

SubfinderLines ==
    {HostLine("a.com"), HostLine("b.com"), BlankLine, MalformedLine, NoHostLine,
     NonObjectLine}
HttpxLines == {ActiveLine("a.com"), InactiveLine("b.com"), MalformedLine, NonObjectLine}
SubfinderOutputs == SeqsUpTo(SubfinderLines, MaxLines)
HttpxOutputs == SeqsUpTo(HttpxLines, MaxLines)

\* What terminal_execute returns: status, exit_code (None when the command
\* has not exited) and content.
TerminalResult(status, exit_code, content) ==
    [status |-> status, exit_code |-> exit_code, content |-> content]
NoResult == TerminalResult("", "", "")
TerminalResults ==
    {TerminalResult("success", "0", ""),
     TerminalResult("success", "None", ""),
     TerminalResult("success", "1", "no results"),
     TerminalResult("error", "None", "command not found"),
     TerminalResult("error", "1", "timed out")}

\* The dict _run_subfinder or _run_httpx returns.
StepResult(success, subdomains, probed_hosts, error) ==
    [done |-> TRUE, success |-> success, subdomains |-> subdomains,
     probed_hosts |-> probed_hosts, error |-> error]
NoStepResult ==
    [done |-> FALSE, success |-> FALSE, subdomains |-> {}, probed_hosts |-> <<>>,
     error |-> ""]

\* The dict subdomain_recon_execute returns, by the keys it has; raised is
\* the exception that left it instead.
WorkflowResult(keys, success, discovered, active, subdomains, error) ==
    [returned |-> TRUE, raised |-> "", keys |-> keys, success |-> success,
     subdomains_discovered |-> discovered, active_hosts |-> active,
     subdomains |-> subdomains, error |-> error]
NoWorkflowResult ==
    [returned |-> FALSE, raised |-> "", keys |-> {}, success |-> FALSE,
     subdomains_discovered |-> 0, active_hosts |-> 0, subdomains |-> {}, error |-> ""]
WorkflowRaised(e) == [NoWorkflowResult EXCEPT !.returned = TRUE, !.raised = e]

WorkflowArgs(domain, output_format, include_inactive) ==
    [domain |-> domain, output_format |-> output_format,
     include_inactive |-> include_inactive]
NoData == [subfinder_output |-> <<>>, httpx_input |-> {}, httpx_output |-> <<>>]

InitTool ==
    /\ wpc = "idle"
    /\ wargs = WorkflowArgs("", "", FALSE)
    /\ tfiles = {}
    /\ tdata = NoData
    /\ result = NoResult
    /\ subfinder_result = NoStepResult
    /\ httpx_result = NoStepResult
    /\ wret = NoWorkflowResult
    /\ ran = <<>>

\* The directory with checkpoint.json showing f and no other file.
DirWith(f) ==
    /\ dir = [n \in Names |-> IF n = get_checkpoint_path /\ f.exists THEN 1 ELSE NoFile]
    /\ inodes = [i \in Inodes |->
                   IF i = 1 /\ f.exists
                   THEN [data |-> f.data, readable |-> f.readable]
                   ELSE EmptyInode]

\* A fresh run directory, or one holding the checkpoint of an earlier run.
Init ==
    /\ \E f \in {Absent, FileWith(Encode(EarlierCheckpoint), TRUE)} : DirWith(f)
    /\ InitAgent
    /\ InitMonitor
    /\ InitTool

(***************************************************************************)
(* save_checkpoint, step by step.                                         *)
(***************************************************************************)
SavePcs == {"build", "open", "write", "rename", "log"}

\* The call ends: its locals go, the descriptor it held is closed.
EndSave(out, how, at) ==
    /\ pc' = "idle"
    /\ sv' = IdleSv
    /\ ret' = Ended("save", out, PyNone)
    /\ lastsave' = Last(how, at)
    /\ streak' = IF how = "ok" THEN streak + 1 ELSE 0

\* The call ends at step `at` with exception e.
FailSave(e, at) == EndSave(Try(Raise(e), SaveCaught, PyNone), "failed", at)

SaveStart(agent_state, scan_config, tracer_data) ==
    /\ pc = "idle"
    /\ now < MaxSaves
    /\ pc' = "build"
    /\ sv' = [IdleSv EXCEPT !.agent_state = agent_state,
                            !.scan_config = scan_config,
                            !.tracer_data = tracer_data]
    /\ ret' = NoRet
    /\ pre' = CheckpointFile
    /\ saved' = NoSave
    /\ lastsave' = Last("running", "none")
    /\ UNCHANGED <<now, streak, fsvars, monitorvars, toolvars>>

\* checkpoint = {...}: the clock is read, then agent_state.model_dump(mode='json').
SaveBuild ==
    /\ pc = "build"
    /\ now' = now + 1
    /\ IF ~sv.agent_state.has_model_dump
       THEN FailSave("AttributeError", "build")
       ELSE IF sv.agent_state.dump.kind = "raise"
       THEN FailSave(sv.agent_state.dump.exc, "build")
       ELSE /\ pc' = "open"
            /\ sv' = [sv EXCEPT !.checkpoint =
                        BuildCheckpoint(sv.agent_state.dump.val, sv.scan_config,
                                        sv.tracer_data, IsoFormat(now + 1))]
            /\ UNCHANGED <<ret, lastsave, streak>>
    /\ UNCHANGED <<pre, saved, fsvars, monitorvars, toolvars>>

\* What save_checkpoint finds at temp_path when it opens it: no file, or a
\* file an earlier save left, longer than what is to be written or not.
StaleTemp ==
    IF ~TempFile.exists THEN "none"
    ELSE IF Len(TempFile.data) > Len(Encode(sv.checkpoint)) THEN "longer"
    ELSE "shorter"

\* Variant: the temp file is opened for appending, a file that is there
\* keeping its content.
SaveOpen_appending ==
    /\ pc = "open"
    /\ IF dir[temp_path] # NoFile
       THEN /\ sv' = [sv EXCEPT !.fd = dir[temp_path], !.stale = StaleTemp]
            /\ pc' = "write"
            /\ UNCHANGED <<dir, inodes, ret, lastsave, streak>>
       ELSE IF FreeInodes(dir, OpenFds) = {}
       THEN FailSave("OSError", "open") /\ UNCHANGED fsvars
       ELSE LET i == MinOf(FreeInodes(dir, OpenFds))
            IN /\ dir' = [dir EXCEPT ![temp_path] = i]
               /\ inodes' = [inodes EXCEPT ![i] = EmptyInode]
               /\ sv' = [sv EXCEPT !.fd = i]
               /\ pc' = "write"
               /\ UNCHANGED <<ret, lastsave, streak>>
    /\ UNCHANGED <<now, pre, saved, monitorvars, toolvars>>

\* temp_path.open("w"): creates the file, or truncates the one that is there.
SaveOpen ==
    /\ pc = "open"
    /\ IF dir[temp_path] # NoFile
       THEN /\ inodes' = [inodes EXCEPT ![dir[temp_path]].data = <<>>]
            /\ sv' = [sv EXCEPT !.fd = dir[temp_path], !.stale = StaleTemp]
            /\ pc' = "write"
            /\ UNCHANGED <<dir, ret, lastsave, streak>>
       ELSE IF FreeInodes(dir, OpenFds) = {}
       THEN FailSave("OSError", "open") /\ UNCHANGED fsvars
       ELSE LET i == MinOf(FreeInodes(dir, OpenFds))
            IN /\ dir' = [dir EXCEPT ![temp_path] = i]
               /\ inodes' = [inodes EXCEPT ![i] = EmptyInode]
               /\ sv' = [sv EXCEPT !.fd = i]
               /\ pc' = "write"
               /\ UNCHANGED <<ret, lastsave, streak>>
    /\ UNCHANGED <<now, pre, saved, monitorvars, toolvars>>

\* The open fails (permission denied, no such directory).
SaveOpenFail ==
    /\ pc = "open"
    /\ FailSave("PermissionError", "open")
    /\ UNCHANGED <<now, pre, saved, fsvars, monitorvars, toolvars>>

\* json.dump(checkpoint, f, indent=2) writes the next chunk, or meets a value
\* it cannot serialize; leaving the with block closes the file.
SaveWrite ==
    /\ pc = "write"
    /\ LET chunks == Encode(sv.checkpoint)
       IN /\ sv.pos < Len(chunks)
          /\ IF chunks[sv.pos + 1] = Unserializable
             THEN /\ FailSave("TypeError", "write")
                  /\ UNCHANGED inodes
             ELSE /\ inodes' = [inodes EXCEPT ![sv.fd].data = Append(@, chunks[sv.pos + 1])]
                  /\ sv' = [sv EXCEPT !.pos = sv.pos + 1]
                  /\ UNCHANGED <<pc, ret, lastsave, streak>>
    /\ UNCHANGED <<dir, now, pre, saved, monitorvars, toolvars>>

\* A write or the closing flush fails (disk full).
SaveWriteFail ==
    /\ pc = "write"
    /\ FailSave("OSError", "write")
    /\ UNCHANGED <<now, pre, saved, fsvars, monitorvars, toolvars>>

\* The with block ends: the file is complete and closed.
SaveClose ==
    /\ pc = "write"
    /\ sv.pos = Len(Encode(sv.checkpoint))
    /\ pc' = "rename"
    /\ sv' = [sv EXCEPT !.fd = NoFile]
    /\ UNCHANGED <<ret, now, pre, saved, lastsave, streak, fsvars, monitorvars, toolvars>>

\* temp_path.replace(checkpoint_path)
SaveRename ==
    /\ pc = "rename"
    /\ dir' = replace(dir, temp_path, get_checkpoint_path)
    /\ inodes' = Collect(dir', inodes, OpenFds)
    /\ pc' = "log"
    /\ UNCHANGED <<sv, ret, now, pre, saved, lastsave, streak, monitorvars, toolvars>>

\* Variant: a replace done as unlink-then-rename that fails after the unlink.
SaveRenameFail_after_unlink ==
    /\ pc = "rename"
    /\ FailSave("PermissionError", "rename")
    /\ dir' = unlink(dir, get_checkpoint_path)
    /\ inodes' = Collect(dir', inodes, OpenFds)
    /\ UNCHANGED <<now, pre, saved, monitorvars, toolvars>>

\* The rename fails (permission denied on the directory).
SaveRenameFail ==
    /\ pc = "rename"
    /\ FailSave("PermissionError", "rename")
    /\ UNCHANGED <<now, pre, saved, fsvars, monitorvars, toolvars>>

\* logger.info(f"Saved checkpoint at iteration {agent_state.iteration}")
SaveLog ==
    /\ pc = "log"
    /\ IF sv.agent_state.has_iteration
       THEN /\ EndSave(Return(PyNone), "ok", "none")
            /\ saved' = [is |-> TRUE,
                          agent_state |-> sv.agent_state.dump.val,
                          scan_config |-> sv.scan_config,
                          tracer_data |-> sv.tracer_data,
                          checkpoint |-> sv.checkpoint,
                          stale |-> sv.stale]
            /\ pre' = Absent
       ELSE /\ FailSave("AttributeError", "log")
            /\ UNCHANGED <<saved, pre>>
    /\ UNCHANGED <<now, fsvars, monitorvars, toolvars>>

\* The agent process is killed inside save_checkpoint; what is on disk stays.
Kill ==
    /\ pc \in SavePcs
    /\ EndSave(Killed, "killed", pc)
    /\ UNCHANGED <<now, pre, saved, fsvars, monitorvars, toolvars>>

(***************************************************************************)
(* The agent's other calls.                                               *)
(***************************************************************************)
CurrentConfigs ==
    {OneTarget,
     Targets(<<JStr("b.com")>>),
     TwoTargets,
     OtherTwoTargets,
     EmptyDict,
     JObj([targets |-> JInt(1)])}

\* Variant: a load that tidies up, removing a temp file it finds.
Load_removing_temp ==
    /\ pc = "idle"
    /\ ret' = Ended("load", load_checkpoint(CheckpointFile), PyNone)
    /\ dir' = [dir EXCEPT ![temp_path] = NoFile]
    /\ inodes' = Collect(dir', inodes, OpenFds)
    /\ UNCHANGED <<pc, sv, now, pre, saved, lastsave, streak, monitorvars, toolvars>>

Load ==
    /\ pc = "idle"
    /\ ret' = Ended("load", load_checkpoint(CheckpointFile), PyNone)
    /\ UNCHANGED <<pc, sv, now, pre, saved, lastsave, streak, fsvars, monitorvars, toolvars>>

CanResume(current_scan_config) ==
    /\ pc = "idle"
    /\ ret' = Ended("can_resume", can_resume(CheckpointFile, current_scan_config),
                    current_scan_config)
    /\ UNCHANGED <<pc, sv, now, pre, saved, lastsave, streak, fsvars, monitorvars, toolvars>>

\* delete_checkpoint: if checkpoint_path.exists(): checkpoint_path.unlink()
Delete ==
    /\ pc = "idle"
    /\ dir' = IF dir[get_checkpoint_path] # NoFile
              THEN unlink(dir, get_checkpoint_path) ELSE dir
    /\ inodes' = Collect(dir', inodes, OpenFds)
    /\ ret' = Ended("delete", Return(PyNone), PyNone)
    /\ saved' = NoSave
    /\ lastsave' = Last("none", "none")
    /\ streak' = 0
    /\ pre' = Absent
    /\ UNCHANGED <<pc, sv, now, monitorvars, toolvars>>

\* The unlink fails (permission denied): except OSError logs a warning.
DeleteFail ==
    /\ pc = "idle"
    /\ dir[get_checkpoint_path] # NoFile
    /\ ret' = Ended("delete", Try(Raise("PermissionError"), DeleteCaught, PyNone), PyNone)
    /\ UNCHANGED <<pc, sv, now, pre, saved, lastsave, streak, fsvars, monitorvars, toolvars>>

(***************************************************************************)
(* The monitoring process: load_checkpoint, step by step.                 *)
(***************************************************************************)
EndRead(out) ==
    /\ rpc' = "idle"
    /\ rfd' = NoFile
    /\ rret' = Ended("load", out, PyNone)

ReadStart ==
    /\ rpc = "idle"
    /\ rpc' = "exists"
    /\ rbuf' = <<>>
    /\ rsnap' = Absent
    /\ rwhen' = "none"
    /\ rret' = NoRet
    /\ UNCHANGED <<rfd, fsvars, agentvars, toolvars>>

\* if not checkpoint_path.exists(): return None
ReadExists ==
    /\ rpc = "exists"
    /\ IF dir[get_checkpoint_path] = NoFile
       THEN EndRead(Return(PyNone))
       ELSE rpc' = "open" /\ UNCHANGED <<rfd, rret>>
    /\ UNCHANGED <<rbuf, rsnap, rwhen, fsvars, agentvars, toolvars>>

\* checkpoint_path.open("r", encoding="utf-8")
ReadOpen ==
    /\ rpc = "open"
    /\ IF dir[get_checkpoint_path] = NoFile
       THEN EndRead(Try(Raise("FileNotFoundError"), LoadCaught, PyNone))
            /\ UNCHANGED <<rsnap, rwhen>>
       ELSE IF ~inodes[dir[get_checkpoint_path]].readable
       THEN EndRead(Try(Raise("PermissionError"), LoadCaught, PyNone))
            /\ UNCHANGED <<rsnap, rwhen>>
       ELSE /\ rfd' = dir[get_checkpoint_path]
            /\ rsnap' = CheckpointFile
            /\ rwhen' = pc
            /\ rpc' = "read"
            /\ UNCHANGED rret
    /\ UNCHANGED <<rbuf, fsvars, agentvars, toolvars>>

\* json.load(f): f.read() takes the file a buffer at a time; at the end of
\* the file it is closed, parsed and validated.
ReadChunk ==
    /\ rpc = "read"
    /\ LET data == inodes[rfd].data
       IN IF Len(rbuf) < Len(data)
          THEN /\ rbuf' = rbuf \o SubSeq(data, Len(rbuf) + 1,
                                         IF Len(rbuf) + ChunkLen < Len(data)
                                         THEN Len(rbuf) + ChunkLen ELSE Len(data))
               /\ UNCHANGED <<rpc, rfd, rret, inodes>>
          ELSE /\ LET checkpoint == json_load(rbuf)
                  IN EndRead(Try(IF checkpoint.kind = "raise" THEN checkpoint
                                 ELSE LoadValidate(checkpoint.val),
                                 LoadCaught, PyNone))
               /\ inodes' = Collect(dir, inodes, OpenFds \ {rfd})
               /\ UNCHANGED rbuf
    /\ UNCHANGED <<rsnap, rwhen, dir, agentvars, toolvars>>

(***************************************************************************)
(* subdomain_recon_execute: execute_workflow, _run_subfinder, _run_httpx,  *)
(* step by step.                                                           *)
(***************************************************************************)
RECURSIVE ParseSubfinderLines(_, _)
\* The loop over subfinder's lines: the subdomains collected, and whether a
\* line made data.get raise (a JSON value that is no object).
ParseSubfinderLines(lines, subdomains) ==
    IF lines = <<>> THEN [raised |-> FALSE, subdomains |-> subdomains]
    ELSE CASE Head(lines).kind \in {"blank", "malformed", "nohost"} ->
                  ParseSubfinderLines(Tail(lines), subdomains)
           [] Head(lines).kind = "nonobject" ->
                  [raised |-> TRUE, subdomains |-> subdomains]
           [] OTHER ->
                  ParseSubfinderLines(Tail(lines), subdomains \cup {Head(lines).host})

\* The loop over httpx's lines: every line json.loads accepts is a probed host.
ParseHttpxLines(lines) ==
    SelectSeq(lines, LAMBDA l : l.kind \notin {"blank", "malformed"})

\* The keys _format_results adds to base_result.
FormatKeys(output_format) ==
    CASE output_format = "summary" -> {"active_urls", "status_breakdown"}
      [] output_format = "detailed" -> {"hosts", "status_breakdown", "technology_summary"}
      [] OTHER -> {"hosts", "inactive_subdomains"}

\* _format_results, as subdomain_recon_execute returns it: h.get on a probed
\* host that is no dict raises AttributeError, which the tool does not catch.
format_results(subdomains, probed_hosts, output_format) ==
    IF \E i \in 1..Len(probed_hosts) : probed_hosts[i].kind = "nonobject"
    THEN WorkflowRaised("AttributeError")
    ELSE WorkflowResult(
             {"success", "domain", "subdomains_discovered", "active_hosts"}
                 \cup FormatKeys(output_format),
             TRUE, Cardinality(subdomains),
             Len(SelectSeq(probed_hosts, LAMBDA h : h.kind = "active")), {}, "")

\* What a run of a tool leaves in its output file: nothing, or some lines.
Written(outputs) == {<<FALSE, <<>>>>} \cup {<<TRUE, o>> : o \in outputs}

EndWorkflow(r) ==
    /\ wpc' = "returned"
    /\ wret' = r

WorkflowStart(output_format, include_inactive) ==
    /\ wpc = "idle"
    /\ wpc' = "subfinder"
    /\ wargs' = WorkflowArgs("example.com", output_format, include_inactive)
    /\ UNCHANGED <<tfiles, tdata, result, subfinder_result, httpx_result, wret, ran>>
    /\ UNCHANGED <<fsvars, agentvars, monitorvars>>

\* terminal_execute(subfinder ... -o output_file) returns; subfinder may have
\* written its output file whatever the status.
SubfinderRun ==
    /\ wpc = "subfinder"
    /\ \E r \in TerminalResults, w \in Written(SubfinderOutputs) :
          /\ result' = r
          /\ tfiles' = IF w[1] THEN tfiles \cup {subfinder_output_file} ELSE tfiles
          /\ tdata' = IF w[1] THEN [tdata EXCEPT !.subfinder_output = w[2]] ELSE tdata
    /\ ran' = Append(ran, "subfinder")
    /\ wpc' = "subfinder_check"
    /\ UNCHANGED <<wargs, subfinder_result, httpx_result, wret>>
    /\ UNCHANGED <<fsvars, agentvars, monitorvars>>

\* terminal_execute raises: the except clause removes the output file if it
\* is there and returns a failure.
SubfinderRaise ==
    /\ wpc = "subfinder"
    /\ ran' = Append(ran, "subfinder")
    /\ tfiles' = tfiles \ {subfinder_output_file}
    /\ tdata' = [tdata EXCEPT !.subfinder_output = <<>>]
    /\ subfinder_result' = StepResult(FALSE, {}, <<>>, "Failed to run/parse subfinder")
    /\ wpc' = "after_subfinder"
    /\ UNCHANGED <<wargs, result, httpx_result, wret>>
    /\ UNCHANGED <<fsvars, agentvars, monitorvars>>

\* The check for errors and the test that the output file exists; both
\* return from inside the try block.
SubfinderCheck ==
    /\ wpc = "subfinder_check"
    /\ IF result.status = "error" \/ result.exit_code \notin {"0", "None"}
       THEN /\ subfinder_result' =
                  StepResult(FALSE, {}, <<>>,
                             IF result.content = "command not found"
                             THEN "subfinder failed: subfinder not found"
                             ELSE "subfinder failed")
            /\ wpc' = "after_subfinder"
       ELSE IF subfinder_output_file \notin tfiles
       THEN /\ subfinder_result' = StepResult(TRUE, {}, <<>>, "")
            /\ wpc' = "after_subfinder"
       ELSE /\ wpc' = "subfinder_parse"
            /\ UNCHANGED subfinder_result
    /\ UNCHANGED <<wargs, tfiles, tdata, result, httpx_result, wret, ran>>
    /\ UNCHANGED <<fsvars, agentvars, monitorvars>>

\* The lines are read and parsed and the output file is unlinked; when a
\* line makes data.get raise, the except clause unlinks it.
SubfinderParse ==
    /\ wpc = "subfinder_parse"
    /\ LET parsed == ParseSubfinderLines(tdata.subfinder_output, {})
       IN subfinder_result' =
              IF parsed.raised
              THEN StepResult(FALSE, {}, <<>>, "Failed to run/parse subfinder")
              ELSE StepResult(TRUE, parsed.subdomains, <<>>, "")
    /\ tfiles' = tfiles \ {subfinder_output_file}
    /\ tdata' = [tdata EXCEPT !.subfinder_output = <<>>]
    /\ wpc' = "after_subfinder"
    /\ UNCHANGED <<wargs, result, httpx_result, wret, ran>>
    /\ UNCHANGED <<fsvars, agentvars, monitorvars>>

\* Variant: httpx is run whenever subfinder succeeded, also on no subdomains.
WorkflowAfterSubfinder_no_empty_check ==
    /\ wpc = "after_subfinder"
    /\ IF ~subfinder_result.success
       THEN EndWorkflow(WorkflowResult({"success", "error"}, FALSE, 0, 0, {},
                                       subfinder_result.error))
       ELSE wpc' = "httpx_input" /\ UNCHANGED wret
    /\ UNCHANGED <<wargs, tfiles, tdata, result, subfinder_result, httpx_result, ran>>
    /\ UNCHANGED <<fsvars, agentvars, monitorvars>>

\* execute_workflow after step 1: the failure is returned as it is, no
\* subdomains end the workflow with zero counts, otherwise _run_httpx is called.
WorkflowAfterSubfinder ==
    /\ wpc = "after_subfinder"
    /\ IF ~subfinder_result.success
       THEN EndWorkflow(WorkflowResult({"success", "error"}, FALSE, 0, 0, {},
                                       subfinder_result.error))
       ELSE IF subfinder_result.subdomains = {}
       THEN EndWorkflow(WorkflowResult(
                {"success", "domain", "subdomains_discovered", "active_hosts",
                 "message", "active_urls", "status_breakdown"},
                TRUE, 0, 0, {}, ""))
       ELSE wpc' = "httpx_input" /\ UNCHANGED wret
    /\ UNCHANGED <<wargs, tfiles, tdata, result, subfinder_result, httpx_result, ran>>
    /\ UNCHANGED <<fsvars, agentvars, monitorvars>>

\* The except clause of _run_httpx: both files are unlinked if they are there.
HttpxExcept ==
    /\ tfiles' = tfiles \ {httpx_input_file, httpx_output_file}
    /\ tdata' = [tdata EXCEPT !.httpx_input = {}, !.httpx_output = <<>>]
    /\ httpx_result' = StepResult(FALSE, {}, <<>>, "Failed to run/parse httpx")
    /\ wpc' = "after_httpx"

\* with input_file.open("w") as f: f.write("\n".join(subdomains))
HttpxWriteInput ==
    /\ wpc = "httpx_input"
    /\ tfiles' = tfiles \cup {httpx_input_file}
    /\ tdata' = [tdata EXCEPT !.httpx_input = subfinder_result.subdomains]
    /\ wpc' = "httpx"
    /\ UNCHANGED <<wargs, result, subfinder_result, httpx_result, wret, ran>>
    /\ UNCHANGED <<fsvars, agentvars, monitorvars>>

\* The input file cannot be opened or written (OSError).
HttpxWriteInputFail ==
    /\ wpc = "httpx_input"
    /\ HttpxExcept
    /\ UNCHANGED <<wargs, result, subfinder_result, wret, ran>>
    /\ UNCHANGED <<fsvars, agentvars, monitorvars>>

\* terminal_execute(httpx -l input_file ... -o output_file) returns.
HttpxRun ==
    /\ wpc = "httpx"
    /\ \E r \in TerminalResults, w \in Written(HttpxOutputs) :
          /\ result' = r
          /\ tfiles' = IF w[1] THEN tfiles \cup {httpx_output_file} ELSE tfiles
          /\ tdata' = IF w[1] THEN [tdata EXCEPT !.httpx_output = w[2]] ELSE tdata
    /\ ran' = Append(ran, "httpx")
    /\ wpc' = "httpx_check"
    /\ UNCHANGED <<wargs, subfinder_result, httpx_result, wret>>
    /\ UNCHANGED <<fsvars, agentvars, monitorvars>>

\* terminal_execute raises.
HttpxRaise ==
    /\ wpc = "httpx"
    /\ ran' = Append(ran, "httpx")
    /\ HttpxExcept
    /\ UNCHANGED <<wargs, result, subfinder_result, wret>>
    /\ UNCHANGED <<fsvars, agentvars, monitorvars>>

\* The check for errors and the test that the output file exists; both
\* return from inside the try block.
HttpxCheck ==
    /\ wpc = "httpx_check"
    /\ IF result.status = "error"
       THEN /\ httpx_result' =
                  StepResult(FALSE, {}, <<>>,
                             IF result.content = "command not found"
                             THEN "httpx failed: httpx not found"
                             ELSE "httpx failed")
            /\ wpc' = "after_httpx"
       ELSE IF httpx_output_file \notin tfiles
       THEN /\ httpx_result' = StepResult(TRUE, {}, <<>>, "")
            /\ wpc' = "after_httpx"
       ELSE /\ wpc' = "httpx_parse"
            /\ UNCHANGED httpx_result
    /\ UNCHANGED <<wargs, tfiles, tdata, result, subfinder_result, wret, ran>>
    /\ UNCHANGED <<fsvars, agentvars, monitorvars>>

\* The lines are read and parsed, both files are unlinked.
HttpxParse ==
    /\ wpc = "httpx_parse"
    /\ httpx_result' = StepResult(TRUE, {}, ParseHttpxLines(tdata.httpx_output), "")
    /\ tfiles' = tfiles \ {httpx_input_file, httpx_output_file}
    /\ tdata' = [tdata EXCEPT !.httpx_input = {}, !.httpx_output = <<>>]
    /\ wpc' = "after_httpx"
    /\ UNCHANGED <<wargs, result, subfinder_result, wret, ran>>
    /\ UNCHANGED <<fsvars, agentvars, monitorvars>>

\* execute_workflow after step 2: partial results when httpx failed,
\* _format_results otherwise.
WorkflowAfterHttpx ==
    /\ wpc = "after_httpx"
    /\ IF ~httpx_result.success
       THEN EndWorkflow(WorkflowResult(
                {"success", "domain", "subdomains_discovered", "active_hosts",
                 "error", "subdomains"},
                FALSE, Cardinality(subfinder_result.subdomains), 0,
                subfinder_result.subdomains, httpx_result.error))
       ELSE EndWorkflow(format_results(subfinder_result.subdomains,
                                       httpx_result.probed_hosts, wargs.output_format))
    /\ UNCHANGED <<wargs, tfiles, tdata, result, subfinder_result, httpx_result, ran>>
    /\ UNCHANGED <<fsvars, agentvars, monitorvars>>

(***************************************************************************)
(* Specifications.                                                        *)
(***************************************************************************)
SaveSteps ==
    \/ SaveBuild
    \/ SaveOpen
    \/ SaveOpenFail
    \/ SaveWrite
    \/ SaveWriteFail
    \/ SaveClose
    \/ SaveRename
    \/ SaveRenameFail
    \/ SaveLog
    \/ Kill

\* The agent alone on its run directory.
Next ==
    \/ \E in \in SaveInputs : SaveStart(in[1], in[2], in[3])
    \/ SaveSteps
    \/ Load
    \/ \E c \in CurrentConfigs : CanResume(c)
    \/ Delete
    \/ DeleteFail

Spec == Init /\ [][Next]_vars

\* The agent saving and deleting while the monitor loads.
NextWatched ==
    \/ \E in \in SaveInputs : now < MaxWatchedSaves /\ SaveStart(in[1], in[2], in[3])
    \/ SaveSteps
    \/ Delete
    \/ ReadStart
    \/ ReadExists
    \/ ReadOpen
    \/ ReadChunk

SpecWatched == Init /\ [][NextWatched]_vars

(***************************************************************************)
(* load_checkpoint and can_resume on whatever checkpoint.json may hold.   *)
(***************************************************************************)
\* A member that is not in the object.
Missing == PyValue("missing", 0, "", <<>>, EmptyMap)

RECURSIVE MapOf(_)
\* The dict of the <<key, value>> pairs whose value is not Missing.
MapOf(pairs) ==
    IF pairs = <<>> THEN EmptyMap
    ELSE LET rest == MapOf(Tail(pairs))
         IN IF Head(pairs)[2] = Missing THEN rest
            ELSE Put(rest, Head(pairs)[1], Head(pairs)[2])

FileVersions ==
    {Missing, JInt(0), JInt(CHECKPOINT_VERSION), JInt(2), JBool(TRUE),
     JFloat(CHECKPOINT_VERSION), JStr("1"), JNull}
FileConfigs ==
    {Missing, OneTarget, TwoTargets, ThreeTargets, EmptyDict, JList(<<>>), JNull, JStr("a.com"),
     JInt(1), JObj([targets |-> JInt(2)]), JObj([targets |-> JNull]),
     JObj([targets |-> JStr("a.com")])}
FileStates ==
    {Missing, Snapshot(FALSE, 5), Snapshot(TRUE, 7), EmptyDict, JList(<<>>), JNull,
     JStr("a.com"), JInt(1)}
FileExtras == {Missing, EmptyDict}

ObjectFiles ==
    {FileWith(Encode(JObj(MapOf(<<<<"version", v>>, <<"created_at", IF x = Missing THEN x ELSE JStr("t0")>>,
                                  <<"scan_config", c>>, <<"agent_state", a>>,
                                  <<"tracer_data", x>>>>))), TRUE) :
        v \in FileVersions, c \in FileConfigs, a \in FileStates, x \in FileExtras}

OtherFiles ==
    {Absent,
     FileWith(Encode(EarlierCheckpoint), FALSE),
     FileWith(<<BadByte>>, TRUE),
     FileWith(<<LB, Key("version"), BadByte>>, TRUE),
     FileWith(<<>>, TRUE),
     FileWith(<<Junk>>, TRUE),
     FileWith(<<LB, Key("version")>>, TRUE),
     FileWith(SubSeq(Encode(EarlierCheckpoint), 1, Len(Encode(EarlierCheckpoint)) - 1), TRUE),
     FileWith(Encode(EarlierCheckpoint) \o <<RB>>, TRUE),
     FileWith(Encode(JList(<<>>)), TRUE),
     FileWith(Encode(JList(<<EarlierCheckpoint>>)), TRUE),
     FileWith(Encode(JStr("a.com")), TRUE),
     FileWith(Encode(JInt(1)), TRUE),
     FileWith(Encode(JNull), TRUE),
     FileWith(Encode(JBool(TRUE)), TRUE)}

InitLoad ==
    /\ \E f \in ObjectFiles \cup OtherFiles : DirWith(f)
    /\ InitAgent
    /\ InitMonitor
    /\ InitTool

NextLoad ==
    \/ Load
    \/ \E c \in CurrentConfigs : CanResume(c)

SpecLoad == InitLoad /\ [][NextLoad]_vars

\* One call of subdomain_recon_execute on an empty temp directory.
OutputFormats == {"summary", "detailed", "full"}

InitRecon ==
    /\ DirWith(Absent)
    /\ InitAgent
    /\ InitMonitor
    /\ InitTool

NextRecon ==
    \/ \E f \in OutputFormats, i \in BOOLEAN : WorkflowStart(f, i)
    \/ SubfinderRun
    \/ SubfinderRaise
    \/ SubfinderCheck
    \/ SubfinderParse
    \/ WorkflowAfterSubfinder
    \/ HttpxWriteInput
    \/ HttpxWriteInputFail
    \/ HttpxRun
    \/ HttpxRaise
    \/ HttpxCheck
    \/ HttpxParse
    \/ WorkflowAfterHttpx

SpecRecon == InitRecon /\ [][NextRecon]_vars

(***************************************************************************)
(* Properties.                                                            *)
(***************************************************************************)
\* The steps of save_checkpoint at which the rename has not completed.
BeforeRename == {"build", "open", "write", "rename"}

\* C1: crash atomicity.  When the agent was killed inside save_checkpoint
\* at any step before the rename completed, a load_checkpoint afterwards
\* returns what a load before the save started would have returned (the
\* previous checkpoint, or None), whatever the temp file holds.
C1_CrashAtomicity ==
    (lastsave.how = "killed" /\ lastsave.at \in BeforeRename) =>
        /\ CheckpointFile = pre
        /\ load_checkpoint(CheckpointFile) = load_checkpoint(pre)
        /\ ret.op = "load" => ret.out = load_checkpoint(pre)

\* Killed in the middle of the write: the temp file holds a proper prefix of
\* the new checkpoint, and the load after it returned the previous one.
C1_Witness ==
    /\ lastsave = Last("killed", "write")
    /\ TempFile.exists
    /\ Len(TempFile.data) > 2
    /\ json_load(TempFile.data).kind = "raise"
    /\ ret.op = "load"
    /\ ret.out = Return(EarlierCheckpoint)

\* The files save_checkpoint can complete: the serialized dict of a call
\* whose model_dump returns and whose values json can serialize.
WholeFiles ==
    {Encode(EarlierCheckpoint)} \cup
    {Encode(BuildCheckpoint(in[1].dump.val, in[2], in[3], IsoFormat(n))) :
        in \in {i \in SaveInputs : i[1].has_model_dump /\ i[1].dump.kind = "return"
                                   /\ i[2] # BadConfig},
        n \in 1..MaxSaves}

\* C2: concurrent reader safety.  While the monitor reads checkpoint.json the
\* file it has open stays what it was when it was opened, and what the
\* monitor ends up with is that whole file: a complete checkpoint, the one
\* before the agent's rename or the one after it, never a truncated or
\* mixed one.
C2_ReaderSeesWholeFile ==
    /\ rpc = "read" =>
          /\ inodes[rfd].data = rsnap.data
          /\ Len(rbuf) <= Len(rsnap.data)
          /\ rbuf = SubSeq(rsnap.data, 1, Len(rbuf))
    /\ (rpc = "idle" /\ rsnap.exists) =>
          /\ rbuf = rsnap.data
          /\ rbuf \in WholeFiles
          /\ rret.out = load_checkpoint(rsnap)

\* The monitor opened checkpoint.json while the agent was writing the temp
\* file, finished reading after the agent's rename, and got the previous
\* checkpoint whole.
C2_Witness ==
    /\ rpc = "idle"
    /\ rsnap.exists
    /\ rwhen = "write"
    /\ pc = "log"
    /\ CheckpointFile.data # rbuf
    /\ CheckpointFile.data = Encode(sv.checkpoint)
    /\ rbuf = Encode(EarlierCheckpoint)
    /\ rret.out = Return(EarlierCheckpoint)

\* C3: save_checkpoint never raises to the caller, whatever fails.
C3_SaveNeverRaises ==
    ret.op = "save" => ret.out.kind # "raise"

\* C4: a failed save leaves the previous checkpoint intact.  When
\* save_checkpoint ended with a failure while building the record, opening
\* the temp file, writing it or renaming it, checkpoint.json is what it was
\* before the call (absent if it was absent), and a load after it returns
\* what a load before the call would have returned.
C4_FailedSaveKeepsCheckpoint ==
    (lastsave.how = "failed" /\ lastsave.at \in {"build", "open", "write", "rename"}) =>
        /\ CheckpointFile = pre
        /\ ret.op = "load" => ret.out = load_checkpoint(pre)

\* The rename failed with the temp file complete; the load after it returned
\* the previous checkpoint.
C4_Witness ==
    /\ lastsave = Last("failed", "rename")
    /\ pre.exists
    /\ TempFile.exists
    /\ TempFile.data \in WholeFiles
    /\ TempFile.data # CheckpointFile.data
    /\ ret.op = "load"
    /\ ret.out = Return(EarlierCheckpoint)

\* C5: load_checkpoint never raises: whatever checkpoint.json holds, it
\* returns a checkpoint or None.
C5_LoadNeverRaises ==
    ret.op = "load" => ret.out.kind = "return"

\* What checkpoint.json parses to.
ParsedFile == json_load(CheckpointFile.data)
\* checkpoint.json is a JSON object whose version is 1.
VersionOneObject ==
    /\ CheckpointFile.exists
    /\ CheckpointFile.readable
    /\ ParsedFile.kind = "return"
    /\ ParsedFile.val.t = "obj"
    /\ "version" \in DOMAIN ParsedFile.val.map
    /\ ParsedFile.val.map["version"] = JInt(1)

\* C6: can_resume is total and boolean: for every file of version 1 with
\* scan_config and agent_state present, of whatever JSON type, and every
\* current_scan_config, it returns True or False.
C6_CanResumeTotal ==
    (/\ ret.op = "can_resume"
     /\ VersionOneObject
     /\ {"scan_config", "agent_state"} \subseteq DOMAIN ParsedFile.val.map) =>
        /\ ret.out.kind = "return"
        /\ ret.out.val.t = "bool"

\* C7: round trip.  A load_checkpoint after a save_checkpoint that went
\* through, with no save or delete in between, returns a checkpoint whose
\* scan_config and agent_state are the saved ones, whose version is 1 and
\* whose tracer_data is the one given, or {} when none was given.
C7_RoundTrip ==
    (saved.is /\ ret.op = "load") =>
        /\ ret.out.kind = "return"
        /\ ret.out.val.t = "obj"
        /\ {"version", "scan_config", "agent_state", "tracer_data"}
               \subseteq DOMAIN ret.out.val.map
        /\ ret.out.val.map["scan_config"] = saved.scan_config
        /\ ret.out.val.map["agent_state"] = saved.agent_state
        /\ ret.out.val.map["version"] = JInt(1)
        /\ ret.out.val.map["tracer_data"] =
               IF saved.tracer_data = PyNone THEN EmptyDict ELSE saved.tracer_data

\* A save with no tracer data went through and the load after it returned
\* the checkpoint.
C7_Witness ==
    /\ saved.is
    /\ saved.tracer_data = PyNone
    /\ saved.scan_config = OneTarget
    /\ ret.op = "load"
    /\ ret.out.kind = "return"
    /\ ret.out.val.t = "obj"

\* C8: overwrite, no history.  The directory never holds a file of the store
\* beside checkpoint.json other than the temp file of a save; and once a save
\* has gone through, also as the second of two in a row, checkpoint.json
\* holds exactly that save's serialized dict and the temp file is gone.
C8_Overwrite ==
    /\ Cardinality({n \in DOMAIN dir : n # temp_path /\ dir[n] # NoFile}) <= 1
    /\ saved.is =>
          /\ CheckpointFile = FileWith(Encode(saved.checkpoint), TRUE)
          /\ ~TempFile.exists
          /\ Cardinality(Linked(dir)) = 1

\* Two saves went through one after the other; the second has just returned.
C8_Witness ==
    /\ streak = 2
    /\ saved.is
    /\ ret.op = "save"
    /\ saved.checkpoint.map["created_at"] = JStr(IsoFormat(2))
    /\ CheckpointFile.data = Encode(saved.checkpoint)

\* C9: version gate.  load_checkpoint returns a checkpoint only if the
\* file's version field is the number 1.
C9_VersionGate ==
    (ret.op = "load" /\ ret.out.kind = "return" /\ ret.out.val # PyNone) =>
        /\ ret.out.val.t = "obj"
        /\ "version" \in DOMAIN ret.out.val.map
        /\ ret.out.val.map["version"].t \in {"int", "float"}
        /\ ret.out.val.map["version"].n = 1

\* C10: missing-field gate.  For a file with the correct version,
\* load_checkpoint returns None when scan_config or agent_state is absent
\* and the checkpoint when both are present, with or without created_at and
\* tracer_data.
C10_MissingFieldGate ==
    (ret.op = "load" /\ VersionOneObject) =>
        IF {"scan_config", "agent_state"} \subseteq DOMAIN ParsedFile.val.map
        THEN ret.out = Return(ParsedFile.val)
        ELSE ret.out = Return(PyNone)

\* A file with version, scan_config and agent_state and neither created_at
\* nor tracer_data was loaded and returned.
C10_Witness ==
    /\ ret.op = "load"
    /\ VersionOneObject
    /\ DOMAIN ParsedFile.val.map = {"version", "scan_config", "agent_state"}
    /\ ret.out.kind = "return"
    /\ ret.out.val # PyNone

\* The checkpoint load_checkpoint returns for checkpoint.json as it is now.
Stored == load_checkpoint(CheckpointFile)
\* load_checkpoint returns a checkpoint, and its agent_state is an object.
StoredState ==
    /\ Stored.kind = "return"
    /\ Stored.val.t = "obj"
    /\ Stored.val.map["agent_state"].t = "obj"
\* The stored agent_state has completed = true.
StoredCompleted ==
    /\ StoredState
    /\ "completed" \in DOMAIN Stored.val.map["agent_state"].map
    /\ Stored.val.map["agent_state"].map["completed"] = JBool(TRUE)

\* C11: completed-run gate.  Whenever the stored checkpoint's agent_state has
\* completed = true, can_resume has returned False, whatever the
\* current_scan_config, the stored targets themselves included; so from the
\* save of a completed state until the next save no can_resume returns True.
C11_CompletedGate ==
    (ret.op = "can_resume" /\ StoredCompleted) => ret.out = Return(JBool(FALSE))

\* A completed state was saved, and can_resume with the very targets that
\* were saved returned False.
C11_Witness ==
    /\ saved.is
    /\ saved.agent_state = Snapshot(TRUE, 7)
    /\ StoredCompleted
    /\ ret.op = "can_resume"
    /\ ret.arg = saved.scan_config
    /\ ret.out = Return(JBool(FALSE))

\* cfg is a mapping whose targets, when it has any, are a list.
HasTargetList(cfg) ==
    /\ cfg.t = "obj"
    /\ "targets" \in DOMAIN cfg.map => cfg.map["targets"].t = "list"
\* The number of targets of such a mapping: none when it has no targets entry.
TargetCount(cfg) ==
    IF "targets" \in DOMAIN cfg.map THEN Len(cfg.map["targets"].items) ELSE 0
\* The stored checkpoint and the current_scan_config of the last can_resume
\* both have a number of targets.
Countable ==
    /\ StoredState
    /\ HasTargetList(Stored.val.map["scan_config"])
    /\ HasTargetList(ret.arg)

\* C12: target-count gate.  can_resume returns True exactly when
\* load_checkpoint returns a checkpoint, its agent_state does not report
\* completed = true, and the stored scan_config has as many targets as
\* current_scan_config; which targets they are makes no difference.  Where
\* both numbers exist and it does not return True it returns False.
C12_TargetCountGate ==
    ret.op = "can_resume" =>
        LET resumable ==
                /\ Countable
                /\ ~StoredCompleted
                /\ TargetCount(Stored.val.map["scan_config"]) = TargetCount(ret.arg)
        IN /\ (ret.out = Return(JBool(TRUE))) <=> resumable
           /\ Countable => ret.out = Return(JBool(resumable))

\* Two stored targets, two other current targets: can_resume returned True.
C12_Witness ==
    /\ ret.op = "can_resume"
    /\ Countable
    /\ Stored.val.map["scan_config"] = TwoTargets
    /\ ret.arg = OtherTwoTargets
    /\ ret.out = Return(JBool(TRUE))

\* C13: idempotent delete.  delete_checkpoint returns normally; on a
\* directory with no checkpoint file it changes nothing, so a second delete
\* in a row changes nothing; on a directory with one it removes
\* checkpoint.json and leaves the other file as it is.
C13_IdempotentDelete ==
    [][Delete =>
        /\ ret'.out = Return(PyNone)
        /\ ~CheckpointFile'.exists
        /\ TempFile' = TempFile
        /\ ~CheckpointFile.exists => (dir' = dir /\ inodes' = inodes)]_vars

\* delete_checkpoint has returned, checkpoint.json is gone and the temp file
\* a failed save left is still there with its content.
C13_Witness ==
    /\ ret = Ended("delete", Return(PyNone), PyNone)
    /\ ~CheckpointFile.exists
    /\ TempFile.exists
    /\ TempFile.data # <<>>

\* C14: the checkpoint's state machine.  checkpoint.json goes from absent to
\* present, or from one content to another, only in the rename of a
\* save_checkpoint, and from present to absent only in a delete_checkpoint;
\* load_checkpoint and can_resume, whatever they return or raise, leave
\* checkpoint.json and every other file of the directory as they were: no
\* step that changes the directory or a file is a step of either.
C14_PureObservers ==
    [][/\ (CheckpointFile' # CheckpointFile) =>
              \/ SaveRename /\ CheckpointFile'.exists
              \/ Delete /\ CheckpointFile.exists /\ ~CheckpointFile'.exists
       /\ (dir' # dir \/ inodes' # inodes) =>
              /\ ~Load
              /\ ~\E c \in CurrentConfigs : CanResume(c)]_vars

\* can_resume has raised on a directory that holds a checkpoint and a
\* leftover temp file; both are there.
C14_Witness ==
    /\ ret.op = "can_resume"
    /\ ret.out.kind = "raise"
    /\ CheckpointFile.exists
    /\ CheckpointFile.data \in WholeFiles
    /\ TempFile.exists
    /\ TempFile.data # <<>>

\* C15: the temp file does not outlive save_checkpoint.  Once a save has
\* returned, having gone through or having failed at any step, the
\* directory holds no checkpoint.tmp.
C15_NoTempAfterSave ==
    (pc = "idle" /\ lastsave.how \in {"ok", "failed"}) => ~TempFile.exists

C17_StaleTempHarmless ==
    /\ pc = "write" => TempFile.data = SubSeq(Encode(sv.checkpoint), 1, sv.pos)
    /\ pc = "rename" => TempFile.data = Encode(sv.checkpoint)
    /\ (saved.is /\ saved.stale # "none") =>
          /\ CheckpointFile.data = Encode(saved.checkpoint)
          /\ ~TempFile.exists
    /\ ret.op = "load" => ret.out = load_checkpoint(CheckpointFile)

\* A save found a longer leftover in checkpoint.tmp and went through; the
\* load after it returned that save's record.
C17_Witness ==
    /\ saved.is
    /\ saved.stale = "longer"
    /\ ret.op = "load"
    /\ ret.out = Return(saved.checkpoint)

\* C18: recon workflow ordering.  httpx is run only after subfinder, once,
\* and only when _run_subfinder returned success with subdomains; a
\* subfinder failure is returned as it is and an empty discovery returns
\* success with zero counts, both with httpx never run; and when _run_httpx
\* failed the result has success = false with the discovered subdomains and
\* their count.
C18_WorkflowOrdering ==
    /\ (\E i \in 1..Len(ran) : ran[i] = "httpx") =>
          /\ ran = <<"subfinder", "httpx">>
          /\ subfinder_result.done
          /\ subfinder_result.success
          /\ subfinder_result.subdomains # {}
    /\ (wret.returned /\ ~subfinder_result.success) =>
          /\ ran = <<"subfinder">>
          /\ wret = WorkflowResult({"success", "error"}, FALSE, 0, 0, {},
                                   subfinder_result.error)
    /\ (wret.returned /\ subfinder_result.success /\ subfinder_result.subdomains = {}) =>
          /\ ran = <<"subfinder">>
          /\ wret.raised = ""
          /\ wret.success
          /\ wret.subdomains_discovered = 0
          /\ wret.active_hosts = 0
    /\ (wret.returned /\ httpx_result.done /\ ~httpx_result.success) =>
          /\ wret.raised = ""
          /\ ~wret.success
          /\ "subdomains" \in wret.keys
          /\ wret.subdomains = subfinder_result.subdomains
          /\ wret.subdomains_discovered = Cardinality(subfinder_result.subdomains)
          /\ wret.error = httpx_result.error

\* subfinder found two subdomains, httpx was run and failed: the result is
\* a failure that carries the two subdomains.
C18_Witness ==
    /\ wret.returned
    /\ ran = <<"subfinder", "httpx">>
    /\ result.status = "error"
    /\ ~wret.success
    /\ wret.subdomains = {"a.com", "b.com"}
    /\ wret.subdomains_discovered = 2

\* C19: recon temp-file cleanup.  Once _run_subfinder has returned its
\* output file is not in the temp directory, and once _run_httpx has
\* returned neither its input file nor its output file is.
C19_TempFilesCleaned ==
    /\ subfinder_result.done => subfinder_output_file \notin tfiles
    /\ httpx_result.done => tfiles \cap {httpx_input_file, httpx_output_file} = {}

====
